---- MODULE Spec2Model ----
(***************************************************************************)
(* A model of MP3MetaDataReader (src/MP3MetaDataReader.h): one call of     *)
(* readMetadata on one input file.  Bytes are the integers 0..255, strings *)
(* are sequences of bytes, the file is a length plus the bytes at its      *)
(* offsets (an offset without an entry holds 0, so that files of 2^29      *)
(* bytes can be written down).                                             *)
(***************************************************************************)
EXTENDS Integers, Sequences, FiniteSets, TLC

VARIABLES
    file,       \* the input: [open, len, data]
    pc,         \* where readMetadata is: start, v1, v2, frame, ret, done, error
    pos,        \* the std::ifstream's read position
    failed,     \* the std::ifstream's failbit
    metadata,   \* the MetaData record being filled
    tagSize,    \* readID3v2Tag's tagSize
    bytesRead,  \* readID3v2Tag's bytesRead
    outcome,    \* pending, returned (a MetaData reached the caller), threw
    error,      \* what() of the exception thrown, "" if none
    walked,     \* history: the frames readID3v2Tag walked, [at, size]
    ran,        \* history: the readers readMetadata called
    wrote,      \* history: the readers that assigned a MetaData field
    readEnd     \* history: one past the highest file offset a read fetched

vars == <<file, pc, pos, failed, metadata, tagSize, bytesRead, outcome, error,
          walked, ran, wrote, readEnd>>

----------------------------------------------------------------------------
(* Arithmetic of the C++ int and char. *)

Min(a, b) == IF a < b THEN a ELSE b
Max(a, b) == IF a > b THEN a ELSE b

RECURSIVE Pow2(_)
Pow2(k) == IF k = 0 THEN 1 ELSE 2 * Pow2(k - 1)

\* a & b and a | b of two non-negative ints, bit by bit
RECURSIVE AndBits(_, _)
AndBits(a, b) ==
    IF a = 0 \/ b = 0 THEN 0
    ELSE (IF a % 2 = 1 /\ b % 2 = 1 THEN 1 ELSE 0) + 2 * AndBits(a \div 2, b \div 2)

RECURSIVE OrBits(_, _)
OrBits(a, b) ==
    IF a = 0 THEN b
    ELSE IF b = 0 THEN a
    ELSE (IF a % 2 = 1 \/ b % 2 = 1 THEN 1 ELSE 0) + 2 * OrBits(a \div 2, b \div 2)

\* the operands are evaluated once, then combined
BitAnd(a, b) == CHOOSE r \in {AndBits(x, y) : x \in {a}, y \in {b}} : TRUE
BitOr(a, b) == CHOOSE r \in {OrBits(x, y) : x \in {a}, y \in {b}} : TRUE

\* a << k of a non-negative int that stays below 2^31
Shl(a, k) == a * Pow2(k)

\* int + int, wrapping at 32 bits as the usual build does
Add32(a, b) ==
    IF a > 0 /\ b > 2147483647 - a
    THEN ((a - 2147483647) - 1) + ((b - 2147483647) - 1)
    ELSE a + b

\* The mask of decodeSynchsafeInt.  A char with its high bit set is promoted to
\* a negative int whose low 8 bits are the byte: & 0x7F keeps the low 7 of them.
SynchsafeMask == 127

decodeSynchsafeIntUnmasked(buffer) ==
    BitOr(BitOr(BitOr(Shl(BitAnd(buffer[1], 255), 21),
                      Shl(BitAnd(buffer[2], 255), 14)),
                Shl(BitAnd(buffer[3], 255), 7)),
          BitAnd(buffer[4], 255))

decodeSynchsafeInt(buffer) ==
    BitOr(BitOr(BitOr(Shl(BitAnd(buffer[1], SynchsafeMask), 21),
                      Shl(BitAnd(buffer[2], SynchsafeMask), 14)),
                Shl(BitAnd(buffer[3], SynchsafeMask), 7)),
          BitAnd(buffer[4], SynchsafeMask))

----------------------------------------------------------------------------
(* parseTextFrame *)

\* std::string::operator[]: s[size()] is the terminating '\0'
CharAt(s, i) == IF i < Len(s) THEN s[i + 1] ELSE 0

\* for (size_t i = 0; i < textContent.size(); i += 2) utf16Text += textContent[i + 1];
RECURSIVE Utf16Loop(_, _, _)
Utf16Loop(textContent, i, utf16Text) ==
    IF i < Len(textContent)
    THEN Utf16Loop(textContent, i + 2, Append(utf16Text, CharAt(textContent, i + 1)))
    ELSE utf16Text

RECURSIVE Utf16LoopFirstByte(_, _, _)
Utf16LoopFirstByte(textContent, i, utf16Text) ==
    IF i < Len(textContent)
    THEN Utf16LoopFirstByte(textContent, i + 2, Append(utf16Text, CharAt(textContent, i)))
    ELSE utf16Text

parseTextFrameFirstByte(content) ==
    IF content = <<>> THEN <<>>
    ELSE LET encoding == content[1]
             textContent == Tail(content)
         IN  IF encoding = 0 THEN textContent
             ELSE IF encoding = 1 THEN Utf16LoopFirstByte(textContent, 0, <<>>)
             ELSE textContent

RECURSIVE TrimNul(_)
TrimNul(s) ==
    IF s # <<>> /\ s[Len(s)] = 0 THEN TrimNul(SubSeq(s, 1, Len(s) - 1)) ELSE s

parseTextFrameTrimmed(content) ==
    IF content = <<>> THEN <<>>
    ELSE LET encoding == content[1]
             textContent == Tail(content)
         IN  IF encoding = 0 THEN TrimNul(textContent)
             ELSE IF encoding = 1 THEN TrimNul(Utf16Loop(textContent, 0, <<>>))
             ELSE TrimNul(textContent)

parseTextFrame(content) ==
    IF content = <<>> THEN <<>>
    ELSE LET encoding == content[1]
             textContent == Tail(content)
         IN  IF encoding = 0 THEN textContent
             ELSE IF encoding = 1 THEN Utf16Loop(textContent, 0, <<>>)
             ELSE textContent

----------------------------------------------------------------------------
(* The markers and frame identifiers the code compares with. *)

ID3 == <<73, 68, 51>>
TAG == <<84, 65, 71>>
TIT2 == <<84, 73, 84, 50>>
TPE1 == <<84, 80, 69, 49>>
TALB == <<84, 65, 76, 66>>
TYER == <<84, 89, 69, 82>>

DetectLen == 3
HeaderLen == 10
TrailerLen == 128

EmptyMetaData == [title |-> <<>>, artist |-> <<>>, album |-> <<>>, year |-> <<>>]

----------------------------------------------------------------------------
(* std::ifstream over the file. *)

ByteAt(f, o) == IF o \in DOMAIN f.data THEN f.data[o] ELSE 0

\* how many bytes read(buf, n) fetches: none once failbit is set
Got(f, p, fl, n) == IF fl THEN 0 ELSE Min(n, f.len - p)

\* buf after read(buf, n): the bytes fetched, then what buf held before
ReadInto(f, p, fl, n, old) ==
    [i \in 1..n |-> IF i <= Got(f, p, fl, n) THEN ByteAt(f, p + i - 1) ELSE old[i]]

PosAfter(f, p, fl, n) == p + Got(f, p, fl, n)
FailAfter(f, p, fl, n) == fl \/ Got(f, p, fl, n) < n
EndAfter(f, p, fl, n, e) == IF Got(f, p, fl, n) > 0 THEN Max(e, p + Got(f, p, fl, n)) ELSE e

\* seekg(0, std::ios::beg): nothing happens once failbit is set
SeekBeg(p, fl) == IF fl THEN p ELSE 0

\* seekg(-128, std::ios::end): fails when the file is shorter
SeekEndPos(f, p, fl) == IF fl \/ f.len < TrailerLen THEN p ELSE f.len - TrailerLen
SeekEndFail(f, fl) == fl \/ f.len < TrailerLen

Zeros(n) == [i \in 1..n |-> 0]

\* std::vector<char> frameContent(frameSize) is zero-filled before the read
ReadContent(f, p, fl, n) ==
    [i \in 1..n |-> IF i <= Got(f, p, fl, n) THEN ByteAt(f, p + i - 1) ELSE 0]

----------------------------------------------------------------------------
(* What an uninitialized stack buffer may hold when a read leaves it (partly)  *)
(* unwritten: an indeterminate value, one of these.                            *)

IndetDetect == {<<0, 0, 0>>, ID3}
IndetTagHeader == {Zeros(HeaderLen), ID3 \o <<3, 0, 0, 0, 0, 0, 25>>}
IndetFrameHeader == {Zeros(HeaderLen), TIT2 \o <<0, 0, 0, 2, 0, 0>>}
IndetTrailer == {Zeros(TrailerLen), TAG \o [i \in 1..(TrailerLen - 3) |-> 65]}

\* the buffers a read may start from: only a short read shows them
Indet(f, p, fl, n, S) == IF Got(f, p, fl, n) < n THEN S ELSE {Zeros(n)}

----------------------------------------------------------------------------
(* The decisions and assignments of the readers. *)

IsID3v2Loose(header) == header[1] = 73 /\ header[2] = 68

IsID3v2(header) == header[1] = 73 /\ header[2] = 68 /\ header[3] = 51

IsID3v1Loose(buffer) == buffer[1] = 84 /\ buffer[2] = 65

IsID3v1(buffer) == buffer[1] = 84 /\ buffer[2] = 65 /\ buffer[3] = 71

ID3v1FieldsTrimmed(buffer) ==
    LET Trim(s) == SelectSeq(s, LAMBDA b : b # 0)
    IN  [title  |-> Trim(SubSeq(buffer, 4, 33)),
         artist |-> Trim(SubSeq(buffer, 34, 63)),
         album  |-> Trim(SubSeq(buffer, 64, 93)),
         year   |-> Trim(SubSeq(buffer, 94, 97))]

\* std::string(buffer + 3, 30), (buffer + 33, 30), (buffer + 63, 30), (buffer + 93, 4)
ID3v1Fields(buffer) ==
    [title  |-> SubSeq(buffer, 4, 33),
     artist |-> SubSeq(buffer, 34, 63),
     album  |-> SubSeq(buffer, 64, 93),
     year   |-> SubSeq(buffer, 94, 97)]

IsTextFrame(frameID) == frameID \in {TIT2, TPE1, TALB, TYER}

StoreFrameFirstWins(md, frameID, content) ==
    IF frameID = TIT2 THEN (IF md.title = <<>> THEN [md EXCEPT !.title = parseTextFrame(content)] ELSE md)
    ELSE IF frameID = TPE1 THEN (IF md.artist = <<>> THEN [md EXCEPT !.artist = parseTextFrame(content)] ELSE md)
    ELSE IF frameID = TALB THEN (IF md.album = <<>> THEN [md EXCEPT !.album = parseTextFrame(content)] ELSE md)
    ELSE IF frameID = TYER THEN (IF md.year = <<>> THEN [md EXCEPT !.year = parseTextFrame(content)] ELSE md)
    ELSE md

\* the if / else if chain on frameID
StoreFrame(md, frameID, content) ==
    IF frameID = TIT2 THEN [md EXCEPT !.title = parseTextFrame(content)]
    ELSE IF frameID = TPE1 THEN [md EXCEPT !.artist = parseTextFrame(content)]
    ELSE IF frameID = TALB THEN [md EXCEPT !.album = parseTextFrame(content)]
    ELSE IF frameID = TYER THEN [md EXCEPT !.year = parseTextFrame(content)]
    ELSE md

LoopContinuesInclusive(br, ts) == br <= ts

\* while (bytesRead < tagSize), and its negation if (bytesRead >= tagSize) break
LoopContinues(br, ts) == br < ts

----------------------------------------------------------------------------
(* readMetadata, one action per reader step. *)

\* if (!file.is_open()) throw std::runtime_error("Could not open file: " + filepath)
OpenFailure ==
    /\ pc = "start"
    /\ ~file.open
    /\ pc' = "error"
    /\ outcome' = "threw"
    /\ error' = "Could not open file"
    /\ UNCHANGED <<file, pos, failed, metadata, tagSize, bytesRead, walked, ran,
                   wrote, readEnd>>

\* hasID3v2Tag(file) and the branch of readMetadata on it
hasID3v2Tag ==
    /\ pc = "start"
    /\ file.open
    /\ LET p0 == SeekBeg(pos, failed)
       IN  \E old \in Indet(file, p0, failed, DetectLen, IndetDetect) :
             LET header == ReadInto(file, p0, failed, DetectLen, old)
             IN  /\ pos' = PosAfter(file, p0, failed, DetectLen)
                 /\ failed' = FailAfter(file, p0, failed, DetectLen)
                 /\ readEnd' = EndAfter(file, p0, failed, DetectLen, readEnd)
                 /\ pc' = IF IsID3v2(header) THEN "v2" ELSE "v1"
                 /\ ran' = ran \cup {IF IsID3v2(header) THEN "ID3v2" ELSE "ID3v1"}
    /\ UNCHANGED <<file, metadata, tagSize, bytesRead, outcome, error, walked, wrote>>

readID3v1Tag ==
    /\ pc = "v1"
    /\ LET p0 == SeekEndPos(file, pos, failed)
           f0 == SeekEndFail(file, failed)
       IN  \E old \in Indet(file, p0, f0, TrailerLen, IndetTrailer) :
             LET buffer == ReadInto(file, p0, f0, TrailerLen, old)
             IN  /\ pos' = PosAfter(file, p0, f0, TrailerLen)
                 /\ failed' = FailAfter(file, p0, f0, TrailerLen)
                 /\ readEnd' = EndAfter(file, p0, f0, TrailerLen, readEnd)
                 /\ IF IsID3v1(buffer)
                    THEN /\ metadata' = ID3v1Fields(buffer)
                         /\ wrote' = wrote \cup {"ID3v1"}
                         /\ pc' = "ret"
                         /\ UNCHANGED <<outcome, error>>
                    ELSE /\ pc' = "error"
                         /\ outcome' = "threw"
                         /\ error' = "No ID3v1 tag found in file."
                         /\ UNCHANGED <<metadata, wrote>>
    /\ UNCHANGED <<file, tagSize, bytesRead, walked, ran>>

\* readID3v2Tag up to the first test of the while loop
readID3v2Tag ==
    /\ pc = "v2"
    /\ LET p0 == SeekBeg(pos, failed)
       IN  \E old \in Indet(file, p0, failed, HeaderLen, IndetTagHeader) :
             LET header == ReadInto(file, p0, failed, HeaderLen, old)
                 size == decodeSynchsafeInt(SubSeq(header, 7, 10))
             IN  /\ pos' = PosAfter(file, p0, failed, HeaderLen)
                 /\ failed' = FailAfter(file, p0, failed, HeaderLen)
                 /\ readEnd' = EndAfter(file, p0, failed, HeaderLen, readEnd)
                 /\ tagSize' = size
                 /\ bytesRead' = HeaderLen
                 /\ pc' = IF LoopContinues(HeaderLen, size) THEN "frame" ELSE "ret"
    /\ UNCHANGED <<file, metadata, outcome, error, walked, ran, wrote>>

\* one iteration of the while loop of readID3v2Tag
readFrame ==
    /\ pc = "frame"
    /\ \E old \in Indet(file, pos, failed, HeaderLen, IndetFrameHeader) :
         LET frameHeader == ReadInto(file, pos, failed, HeaderLen, old)
             p1 == PosAfter(file, pos, failed, HeaderLen)
             f1 == FailAfter(file, pos, failed, HeaderLen)
             e1 == EndAfter(file, pos, failed, HeaderLen, readEnd)
             frameID == SubSeq(frameHeader, 1, 4)
             frameSize == decodeSynchsafeInt(SubSeq(frameHeader, 5, 8))
             total == Add32(Add32(bytesRead, HeaderLen), frameSize)
             content == ReadContent(file, p1, f1, frameSize)
         IN  /\ bytesRead' = total
             /\ walked' = Append(walked, [at |-> pos, size |-> frameSize])
             /\ IF frameSize > 0
                THEN /\ pos' = PosAfter(file, p1, f1, frameSize)
                     /\ failed' = FailAfter(file, p1, f1, frameSize)
                     /\ readEnd' = EndAfter(file, p1, f1, frameSize, e1)
                     /\ metadata' = StoreFrame(metadata, frameID, content)
                     /\ wrote' = IF IsTextFrame(frameID) THEN wrote \cup {"ID3v2"} ELSE wrote
                ELSE /\ pos' = p1
                     /\ failed' = f1
                     /\ readEnd' = e1
                     /\ UNCHANGED <<metadata, wrote>>
             /\ pc' = IF LoopContinues(total, tagSize) THEN "frame" ELSE "ret"
    /\ UNCHANGED <<file, tagSize, outcome, error, ran>>

\* file.close(); return metadata;
readMetadataReturn ==
    /\ pc = "ret"
    /\ pc' = "done"
    /\ outcome' = "returned"
    /\ UNCHANGED <<file, pos, failed, metadata, tagSize, bytesRead, error, walked,
                   ran, wrote, readEnd>>

----------------------------------------------------------------------------
(* The input files readMetadata is run on. *)

COMM == <<67, 79, 77, 77>>

Dense(bytes) ==
    [open |-> TRUE, len |-> Len(bytes), data |-> [o \in 0..(Len(bytes) - 1) |-> bytes[o + 1]]]

Missing == [open |-> FALSE, len |-> 0, data |-> <<>>]

Place(bytes, at) == [o \in at..(at + Len(bytes) - 1) |-> bytes[o - at + 1]]

\* the four bytes whose synch-safe value is n
Synchsafe(n) == <<(n \div 2097152) % 128, (n \div 16384) % 128, (n \div 128) % 128, n % 128>>

TagHeader(sizeBytes) == ID3 \o <<3, 0, 0>> \o sizeBytes
FrameHeader(id, sizeBytes) == id \o sizeBytes \o <<0, 0>>
Frame(id, payload) == FrameHeader(id, Synchsafe(Len(payload))) \o payload

RECURSIVE Flatten(_)
Flatten(frames) == IF frames = <<>> THEN <<>> ELSE Head(frames) \o Flatten(Tail(frames))

Pad(s, n, b) == [i \in 1..n |-> IF i <= Len(s) THEN s[i] ELSE b]

SeqsUpTo(S, n) == UNION {[1..k -> S] : k \in 0..n}

\* a legacy trailer: marker, the four fields, 31 further bytes
Trailer(marker, title, artist, album, year) ==
    marker \o title \o artist \o album \o year \o Pad(<<49>>, 31, 0)

SongTrailer ==
    Trailer(TAG, Pad(<<83, 111, 110, 103>>, 30, 0), Pad(<<77, 101>>, 30, 32),
            Pad(<<>>, 30, 0), <<50, 48, 50, 52>>)

\* Tagged files: a tag header declaring S, up to MaxFrames frames, a tail.
MaxFrames == 2
MaxTagSize == 45
TagSizes == {0, 10, 11, 24, MaxTagSize}
FramePayloads == {<<>>, <<0, 65, 0>>, <<1, 66, 67>>}
FrameIDs == {TIT2, TPE1, COMM}
SmallFrames == {Frame(id, p) : id \in FrameIDs, p \in FramePayloads}
Tails == {<<>>, SongTrailer}

TaggedFiles ==
    {Dense(TagHeader(Synchsafe(S)) \o Flatten(fs) \o tail) :
        S \in TagSizes, fs \in SeqsUpTo(SmallFrames, MaxFrames), tail \in Tails}

\* Files cut short: the first n bytes of a tagged file and of a bare trailer.
MaxCut == 40
CutBases ==
    {TagHeader(Synchsafe(36)) \o Frame(TIT2, <<0, 72, 105>>) \o Frame(TALB, <<1, 65, 0, 66, 0>>),
     TagHeader(Synchsafe(13)) \o Frame(TIT2, <<0, 72, 105>>),
     SongTrailer}
CutFiles == {Dense(SubSeq(b, 1, Min(n, Len(b)))) : b \in CutBases, n \in 0..MaxCut}

\* Untagged files: some leading bytes, then a 128-byte trailer.
Leads == {<<>>, <<255, 251, 144>>, <<73, 68, 0, 51>>}
Markers == {TAG, <<84, 65, 88>>, <<116, 97, 103>>, ID3}
Titles == {Pad(<<>>, 30, 0), Pad(<<72, 105>>, 30, 0), Pad(<<72, 105>>, 30, 32), [i \in 1..30 |-> 64 + i]}
Artists == {Pad(<<>>, 30, 0), Pad(<<77, 101, 0, 77>>, 30, 0)}
Albums == {Pad(<<>>, 30, 32), [i \in 1..30 |-> 200]}
Years == {<<0, 0, 0, 0>>, <<49, 57, 57, 0>>, <<50, 48, 50, 52>>}

LegacyFiles ==
    {Dense(lead \o Trailer(m, t, a, al, y)) :
        lead \in Leads, m \in Markers, t \in Titles, a \in Artists, al \in Albums, y \in Years}

\* Text frames: a tag holding exactly one frame of a recognized kind, the payload an
\* encoding byte and up to MaxTextLen text bytes.
MaxTextLen == 3
Encodings == {0, 1, 2, 255}
TextBytes == {0, 65, 200}
TextPayloads == {<<>>} \cup {<<e>> \o t : e \in Encodings, t \in SeqsUpTo(TextBytes, MaxTextLen)}

TextFiles ==
    {Dense(TagHeader(Synchsafe(20 + Len(p))) \o Frame(id, p)) :
        id \in {TIT2, TPE1, TALB, TYER}, p \in TextPayloads}

\* The scenario of a tag declaring 42 bytes that holds one TIT2 frame, encoding
\* byte 0 and "Hello\0", the frame declaring 6 or 7 bytes, zero padding after it.
Hello == <<72, 101, 108, 108, 111>>
ScenarioFile(declared) ==
    Dense(Pad(TagHeader(Synchsafe(42)) \o FrameHeader(TIT2, Synchsafe(declared))
              \o <<0>> \o Hello \o <<0>>, 52, 0))
ScenarioFiles == {ScenarioFile(6), ScenarioFile(7)}

\* Size fields: every combination of SizeBytes in the tag header, one frame
\* (mostly zeros, so not written out) that covers the declared tag.
SizeBytes == {0, 1, 127, 128, 255}
SizeValue(b) == (b[1] % 128) * 2097152 + (b[2] % 128) * 16384 + (b[3] % 128) * 128 + (b[4] % 128)
SizeFile(b) ==
    LET S == SizeValue(b)
        n == Max(S - 20, 0)
    IN  [open |-> TRUE,
         len  |-> IF S > 10 THEN 20 + n ELSE 10,
         data |-> IF S > 10
                  THEN Place(TagHeader(b), 0) @@ Place(FrameHeader(COMM, Synchsafe(n)), 10)
                  ELSE Place(TagHeader(b), 0)]
SizeFiles == {SizeFile(b) : b \in [1..4 -> SizeBytes]}

\* The largest sizes: a tag of 2^28 - 1 bytes whose first frame ends one byte
\* before the tag does, a second frame of 2^28 - 1 bytes or less.
Huge == Pow2(28) - 1
HugeFile(second) ==
    [open |-> TRUE,
     len  |-> (Huge - 1) + 10 + second,
     data |-> Place(TagHeader(Synchsafe(Huge)), 0)
              @@ Place(FrameHeader(COMM, Synchsafe(Huge - 21)), 10)
              @@ Place(FrameHeader(COMM, Synchsafe(second)), Huge - 1)]
HugeFiles == {HugeFile(s) : s \in {0, 1, Huge}}

\* Files for the frame loop alone: every declared size, cut files, and tagged
\* files whose frames all carry one identifier.
LoopTagged ==
    {Dense(TagHeader(Synchsafe(S)) \o Flatten(fs) \o tail) :
        S \in TagSizes, fs \in SeqsUpTo({Frame(TIT2, p) : p \in FramePayloads}, MaxFrames),
        tail \in Tails}
LoopFiles ==
    {Missing} \cup LoopTagged \cup CutFiles \cup ScenarioFiles \cup SizeFiles \cup HugeFiles

Files ==
    {Missing} \cup TaggedFiles \cup CutFiles \cup LegacyFiles \cup TextFiles
    \cup ScenarioFiles \cup SizeFiles \cup HugeFiles

----------------------------------------------------------------------------

Start ==
    /\ pc = "start"
    /\ pos = 0
    /\ failed = FALSE
    /\ metadata = EmptyMetaData
    /\ tagSize = 0
    /\ bytesRead = 0
    /\ outcome = "pending"
    /\ error = ""
    /\ walked = <<>>
    /\ ran = {}
    /\ wrote = {}
    /\ readEnd = 0

Init == file \in Files /\ Start

InitLoop == file \in LoopFiles /\ Start

Next ==
    \/ OpenFailure
    \/ hasID3v2Tag
    \/ readID3v1Tag
    \/ readID3v2Tag
    \/ readFrame
    \/ readMetadataReturn

Spec == Init /\ [][Next]_vars

\* readMetadata is one synchronous call: it runs until it returns or throws
FairSpec == InitLoop /\ [][Next]_vars /\ WF_vars(Next)

Done == pc \in {"done", "error"}

----------------------------------------------------------------------------
(* What the properties below read off a state. *)

\* the n bytes of the file from offset at
Slice(at, n) == [i \in 1..n |-> ByteAt(file, at + i - 1)]

BeginsWithID3 == file.open /\ file.len >= 3 /\ Slice(0, 3) = ID3
BeginsWithOther == file.open /\ file.len >= 3 /\ Slice(0, 3) # ID3
HasTrailer == file.open /\ file.len >= 128
TrailerBlock == Slice(file.len - 128, 128)
AfterTagHeader == ran = {"ID3v2"} /\ pc \in {"frame", "ret", "done"}

\* the frame walked k-th, as the file holds it
IdOf(k) == Slice(walked[k].at, 4)
SizeFieldOf(k) == Slice(walked[k].at + 4, 4)
PayloadOf(k) == Slice(walked[k].at + 10, walked[k].size)

\* a synch-safe field's value, by arithmetic
FieldValue(b) ==
    (b[1] % 128) * 2097152 + (b[2] % 128) * 16384 + (b[3] % 128) * 128 + (b[4] % 128)

\* the reference text decoder: the text as it is, or the second byte of each pair
RefText(p) ==
    LET T == Tail(p)
    IN  IF p[1] = 1 THEN [k \in 1..(Len(T) \div 2) |-> T[2 * k]] ELSE T

FieldOf(md, id) ==
    IF id = TIT2 THEN md.title
    ELSE IF id = TPE1 THEN md.artist
    ELSE IF id = TALB THEN md.album
    ELSE md.year

\* C1: in readID3v2Tag no byte at file offset >= 10 + S is ever read, S the
\* declared total tag size: a frame that would pass the boundary is not read.
C1_NoReadPastTag == AfterTagHeader => readEnd <= 10 + tagSize

\* C2: when the file ends before a requested read completes, readMetadata fails
\* with a read failure and returns no metadata record.
C2_ShortReadFails == failed /\ Done => outcome = "threw"

\* C3 as stated: an input beginning with "ID3" runs only the modern reader, any
\* other only the legacy reader, and exactly one reader mutates the record.
C3_ExactlyOneMutates ==
    /\ pc # "start" /\ BeginsWithID3 => ran = {"ID3v2"}
    /\ pc # "start" /\ BeginsWithOther => ran = {"ID3v1"}
    /\ pc = "done" /\ file.len >= 3 => Cardinality(wrote) = 1

\* C3 as amended: an input beginning with "ID3" runs only the modern reader (a
\* legacy trailer or not), any other only the legacy reader; only the reader
\* that ran mutates the record, so at most one does.
C3_Precedence ==
    /\ pc # "start" /\ BeginsWithID3 => ran = {"ID3v2"}
    /\ pc # "start" /\ BeginsWithOther => ran = {"ID3v1"}
    /\ wrote \subseteq ran
    /\ Cardinality(ran) <= 1
    /\ Done /\ file.open => Cardinality(ran) = 1

C3_Witness ==
    /\ pc = "done" /\ BeginsWithID3 /\ HasTrailer /\ SubSeq(TrailerBlock, 1, 3) = TAG
    /\ ran = {"ID3v2"} /\ wrote = {"ID3v2"}

\* C4: an input that does not begin with "ID3" and whose last 128 bytes do not
\* begin with "TAG" makes readMetadata throw "No ID3v1 tag found in file.";
\* no metadata record is returned.
C4_NoLegacyTagThrows ==
    BeginsWithOther /\ HasTrailer /\ SubSeq(TrailerBlock, 1, 3) # TAG
    => /\ pc \in {"start", "v1", "error"}
       /\ outcome # "returned"
       /\ pc = "error" => outcome = "threw" /\ error = "No ID3v1 tag found in file."

C4_Witness ==
    /\ pc = "error" /\ error = "No ID3v1 tag found in file."
    /\ BeginsWithOther /\ HasTrailer /\ SubSeq(TrailerBlock, 1, 2) = <<84, 65>>

\* C5 as stated: for the tag declaring 42 bytes with one TIT2 frame declaring 6
\* bytes, content 0 then "Hello\0", the title returned is the 6 characters
\* "Hello\0".
C5_HelloNul ==
    file = ScenarioFile(6) /\ Done
    => outcome = "returned" /\ metadata.title = Hello \o <<0>>

\* C5 as amended: with the frame declaring 6 bytes the title returned is the 5
\* characters "Hello"; it is the 6 characters "Hello\0", the NUL kept, when the
\* frame declares all 7 bytes of its content.
C5_Hello ==
    /\ file = ScenarioFile(6) /\ Done => outcome = "returned" /\ metadata.title = Hello
    /\ file = ScenarioFile(7) /\ Done
       => outcome = "returned" /\ metadata.title = Hello \o <<0>>

C5_Witness == file = ScenarioFile(6) /\ pc = "done" /\ Len(metadata.title) = 5

\* C6: a tag holding one recognized frame whose payload is an encoding byte e
\* and text T returns T as it is when e # 1, and the second byte of each pair
\* when e = 1 and T is whole pairs; an empty payload decodes to the empty string.
C6_TextDecoding ==
    /\ parseTextFrame(<<>>) = <<>>
    /\ pc = "done" /\ ~failed /\ ran = {"ID3v2"} /\ Len(walked) = 1
       /\ IsTextFrame(IdOf(1)) /\ walked[1].size > 0
       /\ (PayloadOf(1)[1] = 1 => walked[1].size % 2 = 1)
       => FieldOf(metadata, IdOf(1)) = RefText(PayloadOf(1))

C6_Witness ==
    /\ pc = "done" /\ ~failed /\ Len(walked) = 1 /\ IdOf(1) = TIT2
    /\ PayloadOf(1) = <<1, 200, 65>> /\ metadata.title = <<65>>

\* C7: an input that does not begin with "ID3" and whose last 128 bytes B begin
\* with "TAG" returns title = B[3..33), artist = B[33..63), album = B[63..93),
\* year = B[93..97), byte for byte, of lengths 30, 30, 30 and 4.
C7_LegacyFields ==
    BeginsWithOther /\ HasTrailer /\ SubSeq(TrailerBlock, 1, 3) = TAG
    => /\ pc \in {"start", "v1", "ret", "done"}
       /\ pc \in {"ret", "done"}
          => /\ metadata.title = Slice(file.len - 128 + 3, 30)
             /\ metadata.artist = Slice(file.len - 128 + 33, 30)
             /\ metadata.album = Slice(file.len - 128 + 63, 30)
             /\ metadata.year = Slice(file.len - 128 + 93, 4)
             /\ Len(metadata.title) = 30 /\ Len(metadata.artist) = 30
             /\ Len(metadata.album) = 30 /\ Len(metadata.year) = 4
       /\ pc = "done" => outcome = "returned"

C7_Witness ==
    /\ pc = "done" /\ outcome = "returned" /\ ran = {"ID3v1"}
    /\ metadata.title = Pad(<<72, 105>>, 30, 0) /\ metadata.year = <<49, 57, 57, 0>>

\* C8: decodeSynchsafeInt of any 4 bytes is
\* (b0 & 0x7F) << 21 | (b1 & 0x7F) << 14 | (b2 & 0x7F) << 7 | (b3 & 0x7F),
\* lies in 0 .. 2^28 - 1, and does not change when a byte's high bit is flipped.
C8_Synchsafe ==
    AfterTagHeader /\ file.len >= 10
    => LET b == Slice(6, 4)
       IN  /\ tagSize = FieldValue(b)
           /\ tagSize \in 0..(Pow2(28) - 1)
           /\ \A i \in 1..4 :
                decodeSynchsafeInt([b EXCEPT ![i] = (b[i] + 128) % 256]) = tagSize

C8_Witness ==
    /\ AfterTagHeader /\ Slice(6, 4) = <<255, 128, 1, 255>>
    /\ tagSize = 127 * 2097152 + 128 + 127

\* C9: after the modern reader walked frames, each field is the decoded payload
\* of the last walked frame with its identifier and a declared size > 0, empty
\* if there is none; an unrecognized frame changes no field and its payload is
\* consumed, the next frame header being read right after it.
C9_LastFrameWins ==
    AfterTagHeader /\ ~failed
    => /\ \A k \in 1..Len(walked) :
            /\ walked[k].at = IF k = 1 THEN 10 ELSE walked[k - 1].at + 10 + walked[k - 1].size
            /\ walked[k].size = FieldValue(SizeFieldOf(k))
       /\ \A id \in {TIT2, TPE1, TALB, TYER} :
            LET K == {k \in 1..Len(walked) : IdOf(k) = id /\ walked[k].size > 0}
            IN  FieldOf(metadata, id) =
                    IF K = {} THEN <<>>
                    ELSE parseTextFrame(PayloadOf(CHOOSE k \in K : \A j \in K : j <= k))

C9_Witness ==
    /\ pc = "done" /\ ~failed /\ Len(walked) = 2
    /\ IdOf(1) = TPE1 /\ IdOf(2) = TPE1
    /\ PayloadOf(1) = <<1, 66, 67>> /\ PayloadOf(2) = <<0, 65, 0>>
    /\ metadata.artist = <<65, 0>>

RECURSIVE Consumed(_)
Consumed(w) == IF w = <<>> THEN 0 ELSE 10 + Head(w).size + Consumed(Tail(w))

C10_Counter ==
    AfterTagHeader
    => /\ bytesRead = 10 + Consumed(walked)
       /\ \A k \in 1..Len(walked) : walked[k].size >= 0
       /\ pc = "frame" <=> bytesRead < tagSize
       /\ Len(walked) <= (IF tagSize <= 10 THEN 0 ELSE (tagSize - 1) \div 10)
       /\ tagSize <= 10 => metadata = EmptyMetaData
       /\ bytesRead <= Pow2(29) + 9

\* C10: the frame loop terminates: the counter starts at 10 and grows by 10 +
\* the declared size per frame, a further frame header is read iff the counter
\* is below the declared tag size S, at most ceil((S - 10) / 10) frames are
\* read, none when S <= 10, and the counter stays at or below 2^29 + 9.
C10_Terminates == []C10_Counter /\ <>Done

C10_Witness == pc = "done" /\ Len(walked) = 2 /\ bytesRead = Pow2(29) + 7
====
